---- MODULE Spec2Model ----
(***************************************************************************)
(* Model of the Borrower dashboard component                               *)
(* (src/frontend/src/components/Borrower.js).                              *)
(*                                                                         *)
(* The component is a set of React state cells, event handlers and async   *)
(* functions.  Every async function is a task that is suspended at each    *)
(* await; one action of the model is one run-to-suspension piece of a      *)
(* handler.  A handler reads the state cells of the render that created    *)
(* it, so a task carries the account and contract it captured.             *)
(*                                                                         *)
(* Text is a tuple of one-character strings, amounts in wei are tuples of  *)
(* decimal digits (most significant first, <<>> is zero), and JavaScript   *)
(* numbers are IEEE-754 binary64 values m * 2^e with 2^52 <= m < 2^53.     *)
(***************************************************************************)
EXTENDS Integers, Sequences, FiniteSets, TLC

(***************************************************************************)
(* Text                                                                    *)
(***************************************************************************)
DigitChars == <<"0", "1", "2", "3", "4", "5", "6", "7", "8", "9">>

IsDigitChar(c) == \E i \in 1..10 : DigitChars[i] = c

DigitVal(c) == (CHOOSE i \in 1..10 : DigitChars[i] = c) - 1

DigitChr(d) == DigitChars[d + 1]

\* String.prototype.toLowerCase on the characters an address can hold.
LowerChar(c) ==
    CASE c = "A" -> "a"
      [] c = "B" -> "b"
      [] c = "C" -> "c"
      [] c = "D" -> "d"
      [] c = "E" -> "e"
      [] c = "F" -> "f"
      [] OTHER -> c

Front(s) == SubSeq(s, 1, Len(s) - 1)

Last(s) == s[Len(s)]

Max(a, b) == IF a >= b THEN a ELSE b

\* <<F(1), ..., F(n)>>
TupleOf(F(_), n) == <<>> \o [i \in 1..n |-> F(i)]

Zeros(n) == TupleOf(LAMBDA i : 0, n)

\* s without its leading zeros
StripLeft(s) ==
    SubSeq(s, Cardinality({i \in 1..Len(s) : \A j \in 1..i : s[j] = 0}) + 1,
           Len(s))

\* s without its trailing zeros
StripRight(s) ==
    SubSeq(s, 1, Len(s)
                 - Cardinality({i \in 1..Len(s) : \A j \in i..Len(s) : s[j] = 0}))

toLowerCase(s) == TupleOf(LAMBDA i : LowerChar(s[i]), Len(s))

ToChars(ds) == TupleOf(LAMBDA i : DigitChr(ds[i]), Len(ds))

ToDigits(cs) == TupleOf(LAMBDA i : DigitVal(cs[i]), Len(cs))

(***************************************************************************)
(* Unbounded naturals (ethers BigNumber, and the exact arithmetic behind   *)
(* binary64 rounding).  Digit positions count from the least significant,  *)
(* position 0.                                                             *)
(***************************************************************************)
DigitAt(a, i) == IF i < Len(a) THEN a[Len(a) - i] ELSE 0

RECURSIVE NatToB(_)
NatToB(n) == IF n = 0 THEN <<>> ELSE Append(NatToB(n \div 10), n % 10)

\* a against b of the same length, whose first same digits agree
BCmpFrom(a, b, same) ==
    IF same = Len(a) THEN 0
    ELSE IF a[same + 1] < b[same + 1] THEN -1 ELSE 1

BCmp(a, b) ==
    IF Len(a) < Len(b) THEN -1
    ELSE IF Len(a) > Len(b) THEN 1
    ELSE BCmpFrom(a, b,
                  Cardinality({i \in 1..Len(a) : \A j \in 1..i : a[j] = b[j]}))

\* the carry into position i of a + b: some lower position makes one and
\* every position between passes it on
CarryInto(a, b, i) ==
    \E j \in 0..(i - 1) :
        /\ DigitAt(a, j) + DigitAt(b, j) >= 10
        /\ \A k \in (j + 1)..(i - 1) : DigitAt(a, k) + DigitAt(b, k) = 9

\* the digit of a + b at position i
SumDigit(a, b, i) ==
    (DigitAt(a, i) + DigitAt(b, i) + IF CarryInto(a, b, i) THEN 1 ELSE 0) % 10

\* a + b, n the length of the longer
BAddTo(a, b, n) ==
    (IF CarryInto(a, b, n) THEN <<1>> ELSE <<>>)
        \o TupleOf(LAMBDA i : SumDigit(a, b, n - i), n)

BAdd(a, b) == BAddTo(a, b, Max(Len(a), Len(b)))

\* the borrow from position i of a - b
BorrowFrom(a, b, i) ==
    \E j \in 0..(i - 1) :
        /\ DigitAt(a, j) < DigitAt(b, j)
        /\ \A k \in (j + 1)..(i - 1) : DigitAt(a, k) <= DigitAt(b, k)

\* the digit of a - b at position i
DiffDigit(a, b, i) ==
    (10 + DigitAt(a, i) - DigitAt(b, i)
     - IF BorrowFrom(a, b, i) THEN 1 ELSE 0) % 10

\* a - b for a >= b
BSub(a, b) == StripLeft(TupleOf(LAMBDA i : DiffDigit(a, b, Len(a) - i), Len(a)))

\* a * 10^n
BShift(a, n) == IF a = <<>> THEN <<>> ELSE a \o Zeros(n)

Multiples8(a, a2, a4, a8) ==
    <<a, a2, BAdd(a2, a), a4, BAdd(a4, a), BAdd(a4, a2), BSub(a8, a), a8,
      BAdd(a8, a)>>

Multiples4(a, a2, a4) == Multiples8(a, a2, a4, BAdd(a4, a4))

Multiples2(a, a2) == Multiples4(a, a2, BAdd(a2, a2))

\* <<a, 2a, ..., 9a>>
Multiples(a) == Multiples2(a, BAdd(a, a))

RECURSIVE BMulR(_, _, _, _)
\* the number that the digits of b at positions lo..hi spell, times the
\* number whose multiples are ms
BMulR(ms, b, lo, hi) ==
    IF lo = hi
    THEN IF DigitAt(b, lo) = 0 THEN <<>> ELSE ms[DigitAt(b, lo)]
    ELSE BAdd(BMulR(ms, b, lo, (lo + hi) \div 2),
              BShift(BMulR(ms, b, (lo + hi) \div 2 + 1, hi),
                     (lo + hi) \div 2 + 1 - lo))

BMul(a, b) ==
    IF a = <<>> \/ b = <<>> THEN <<>>
    ELSE BMulR(Multiples(a), b, 0, Len(b) - 1)

\* one step of long division: the digit k and what is left of r0
DivDigit(ms, r0, k) ==
    [q |-> <<k>>, r |-> IF k = 0 THEN r0 ELSE BSub(r0, ms[k])]

DivStep(ms, r0) ==
    DivDigit(ms, r0, Cardinality({j \in 1..9 : BCmp(ms[j], r0) <= 0}))

DivJoin(L, H) == [q |-> L.q \o H.q, r |-> H.r]

RECURSIVE DivR(_, _, _, _, _)
RECURSIVE DivHigh(_, _, _, _, _)
\* long division of the digits lo..hi of n (from the most significant) by
\* the number whose multiples are ms, entered with the remainder rem
DivR(n, ms, lo, hi, rem) ==
    IF lo = hi
    THEN DivStep(ms, StripLeft(Append(rem, n[lo])))
    ELSE DivHigh(n, ms, (lo + hi) \div 2 + 1, hi,
                 DivR(n, ms, lo, (lo + hi) \div 2, rem))

\* the digits lo..hi after the lower half gave L
DivHigh(n, ms, lo, hi, L) == DivJoin(L, DivR(n, ms, lo, hi, L.r))

QuotRem(x) == [q |-> StripLeft(x.q), r |-> x.r]

\* quotient and remainder of n by d, d > 0
BDivMod(n, d) ==
    IF BCmp(n, d) < 0 THEN [q |-> <<>>, r |-> n]
    ELSE QuotRem(DivR(n, Multiples(d), Len(d), Len(n), SubSeq(n, 1, Len(d) - 1)))

BDiv(n, d) == BDivMod(n, d).q

Pow10(n) == <<1>> \o Zeros(n)

MaxPow2 == 128

RECURSIVE Pow2From(_, _, _)
RECURSIVE Pow2After(_, _, _)
\* <<2^lo, ..., 2^hi>>, given 2^lo
Pow2From(lo, hi, first) ==
    IF lo = hi THEN <<first>>
    ELSE Pow2After(Pow2From(lo, (lo + hi) \div 2, first),
                   (lo + hi) \div 2 + 1, hi)

\* the powers L, followed by those up to 2^hi
Pow2After(L, lo, hi) == L \o Pow2From(lo, hi, BAdd(Last(L), Last(L)))

Pow2Table == Pow2From(0, MaxPow2, <<1>>)

Pow2(n) == Pow2Table[n + 1]

\* the number of binary digits of a
BitLength(a) == Cardinality({k \in 0..MaxPow2 : BCmp(Pow2(k), a) <= 0})

IsOdd(a) == a # <<>> /\ Last(a) % 2 = 1

\* (n / d) * 2^k as a fraction, k of either sign
ShiftNum(n, k) == IF k > 0 THEN BMul(n, Pow2(k)) ELSE n

ShiftDen(d, k) == IF k < 0 THEN BMul(d, Pow2(0 - k)) ELSE d

(***************************************************************************)
(* JavaScript numbers: binary64, round to nearest, ties to even.  Only     *)
(* positive normal values and zero occur (amounts and prices).             *)
(***************************************************************************)
MantissaBits == 53

P52 == Pow2(MantissaBits - 1)

P53 == Pow2(MantissaBits)

FZero == [m |-> <<>>, e |-> 0]

\* e, or e + 1 when (n / d) * 2^(-e) reaches 2^53
BinExpFrom(n, d, e) ==
    IF BCmp(ShiftNum(n, 0 - e), BMul(ShiftDen(d, 0 - e), P53)) < 0
    THEN e ELSE e + 1

\* the e with 2^52 <= (n / d) * 2^(-e) < 2^53
BinExp(n, d) == BinExpFrom(n, d, BitLength(n) - BitLength(d) - MantissaBits)

\* c compares twice the remainder with the divisor: round half to even
RoundsUp(c, q) == c > 0 \/ (c = 0 /\ IsOdd(q))

\* m * 2^e, m a mantissa that rounding may have carried to 2^53
Normal(m, e) == IF m = P53 THEN [m |-> P52, e |-> e + 1] ELSE [m |-> m, e |-> e]

Nearest(qr, den, e) ==
    Normal(IF RoundsUp(BCmp(BAdd(qr.r, qr.r), den), qr.q)
           THEN BAdd(qr.q, <<1>>) ELSE qr.q, e)

RoundScaled(n, den, e) == Nearest(BDivMod(ShiftNum(n, 0 - e), den), den, e)

\* the binary64 value nearest to n / d, which has the binary exponent e
RoundAt(n, d, e) == RoundScaled(n, ShiftDen(d, 0 - e), e)

TimesPow2(x, e0) == [m |-> x.m, e |-> x.e + e0]

\* the binary64 value nearest to (n / d) * 2^e0
RoundRatio(n, d, e0) ==
    IF n = <<>> THEN FZero ELSE TimesPow2(RoundAt(n, d, BinExp(n, d)), e0)

FMul(x, y) == RoundRatio(BMul(x.m, y.m), <<1>>, x.e + y.e)

FDiv(x, y) == RoundRatio(x.m, y.m, x.e - y.e)

\* x as an exact fraction num / den
FNum(x) == ShiftNum(x.m, x.e)

FDen(x) == ShiftDen(<<1>>, x.e)

\* s * 10^p as a binary64 value
FromDecimal(s, p) ==
    RoundRatio(IF p >= 0 THEN BShift(s, p) ELSE s,
               IF p >= 0 THEN <<1>> ELSE Pow10(0 - p), 0)

PointAt(cs) == IF \E i \in 1..Len(cs) : cs[i] = "."
               THEN CHOOSE i \in 1..Len(cs) : cs[i] = "."
               ELSE Len(cs) + 1

\* digits with at most one point, and at least one character
IsPlainDecimal(cs) ==
    /\ cs # <<>>
    /\ \A i \in 1..Len(cs) : IsDigitChar(cs[i]) \/ cs[i] = "."
    /\ Cardinality({i \in 1..Len(cs) : cs[i] = "."}) <= 1
    /\ cs # <<".">>

\* the value of the digits whole, a point, the digits frac
DecimalValue(whole, frac) ==
    FromDecimal(StripLeft(ToDigits(whole \o frac)), 0 - Len(frac))

\* Number(text) for a plain decimal text
StringToNumber(cs) ==
    DecimalValue(SubSeq(cs, 1, PointAt(cs) - 1),
                 SubSeq(cs, PointAt(cs) + 1, Len(cs)))

\* the n with 10^(n-1) <= num/den < 10^n
DecExp(num, den) ==
    IF BCmp(BShift(num, Max(Len(den) - Len(num), 0)),
            BShift(den, Max(Len(num) - Len(den), 0))) < 0
    THEN Len(num) - Len(den) ELSE Len(num) - Len(den) + 1

\* of lo and hi, nearest first, those s for which s * 10^p reads back as x
CandidatesIn(x, p, lo, hi, up) ==
    SelectSeq(IF up THEN <<hi, lo>> ELSE <<lo, hi>>,
              LAMBDA s : s # <<>> /\ FromDecimal(s, p) = x)

CandidatesOf(x, p, qr, b) ==
    CandidatesIn(x, p, qr.q, BAdd(qr.q, <<1>>),
                 RoundsUp(BCmp(BAdd(qr.r, qr.r), b), qr.q))

CandidatesAt(x, p, a, b) == CandidatesOf(x, p, BDivMod(a, b), b)

\* the k-digit numbers s, nearest first, for which s * 10^(n-k) reads back
\* as x
Candidates(x, n, k) ==
    CandidatesAt(x, n - k, BShift(FNum(x), Max(k - n, 0)),
                 BShift(FDen(x), Max(n - k, 0)))

MaxDigits == 17

RECURSIVE FewestDigits(_, _, _, _)
\* the least k in lo..hi with a k-digit number that reads back as x; the
\* numbers of more digits than one that does, do too
FewestDigits(x, n, lo, hi) ==
    IF lo = hi THEN lo
    ELSE IF Candidates(x, n, (lo + hi) \div 2) # <<>>
    THEN FewestDigits(x, n, lo, (lo + hi) \div 2)
    ELSE FewestDigits(x, n, (lo + hi) \div 2 + 1, hi)

\* the digits s found for k digits may have carried into one more
ShortestIs(s, n, k) ==
    [s |-> StripRight(s), n |-> IF Len(s) > k THEN n + 1 ELSE n]

ShortestOf(x, n, k) == ShortestIs(Candidates(x, n, k)[1], n, k)

ShortestAt(x, n) == ShortestOf(x, n, FewestDigits(x, n, 1, MaxDigits))

\* the shortest digit string that reads back as x, with its exponent
Shortest(x) == ShortestAt(x, DecExp(FNum(x), FDen(x)))

\* the digits ds as d.ddde+x or d.ddde-x
Exponential(ds, k, ex) ==
    (IF k = 1 THEN ds ELSE <<ds[1], ".">> \o SubSeq(ds, 2, k))
        \o <<"e">>
        \o (IF ex < 0 THEN <<"-">> ELSE <<"+">>)
        \o ToChars(NatToB(IF ex < 0 THEN 0 - ex ELSE ex))

\* the k digits ds of a number below 10^n, in the notation toString picks
Notation(ds, k, n) ==
    IF k <= n /\ n <= 21
    THEN ds \o ToChars(Zeros(n - k))
    ELSE IF 0 < n /\ n <= 21
    THEN SubSeq(ds, 1, n) \o <<".">> \o SubSeq(ds, n + 1, k)
    ELSE IF -6 < n /\ n <= 0
    THEN <<"0", ".">> \o ToChars(Zeros(0 - n)) \o ds
    ELSE Exponential(ds, k, n - 1)

DigitsToString(sh) == Notation(ToChars(sh.s), Len(sh.s), sh.n)

\* Number.prototype.toString (radix 10) of a non-negative number
NumberToString(x) ==
    IF x = FZero THEN <<"0">> ELSE DigitsToString(Shortest(x))

\* a JavaScript number: NaN, or a sign and a magnitude
NaN == [nan |-> TRUE, neg |-> FALSE, abs |-> FZero]

Signed(neg, x) == [nan |-> FALSE, neg |-> neg, abs |-> x]

\* x > y for non-negative binary64 values
FGreater(x, y) ==
    IF x = FZero THEN FALSE
    ELSE IF y = FZero THEN TRUE
    ELSE x.e > y.e \/ (x.e = y.e /\ BCmp(x.m, y.m) > 0)

\* the number a text of an optional sign and a plain decimal spells
SignedDecimal(cs) ==
    IF (cs # <<>> /\ cs[1] = "-" /\ IsPlainDecimal(Tail(cs))) \/ IsPlainDecimal(cs)
    THEN Signed(cs[1] = "-", StringToNumber(IF cs[1] = "-" THEN Tail(cs) ELSE cs))
    ELSE NaN

\* parseFloat(text), for the empty text and signed plain decimals
ParseFloatOf(cs) == SignedDecimal(cs)

\* Number(text), for the empty text and signed plain decimals
NumberOf(cs) == IF cs = <<>> THEN Signed(FALSE, FZero) ELSE SignedDecimal(cs)

RECURSIVE BToNat(_)
BToNat(a) == IF a = <<>> THEN 0 ELSE BToNat(Front(a)) * 10 + Last(a)

\* the floor of the number whose magnitude has the quotient and remainder qr
FloorSigned(neg, qr) ==
    IF ~neg THEN BToNat(qr.q)
    ELSE IF qr.r = <<>> THEN 0 - BToNat(qr.q)
    ELSE 0 - BToNat(qr.q) - 1

\* Math.floor of a number of small magnitude
FloorOf(x) ==
    IF x.abs = FZero THEN 0
    ELSE FloorSigned(x.neg, BDivMod(FNum(x.abs), FDen(x.abs)))

(***************************************************************************)
(* ethers.utils                                                            *)
(***************************************************************************)
EtherDecimals == 18

\* a thrown ethers error; its reason is the text ethers puts in error.reason
Throws(reason) == [throws |-> TRUE, reason |-> reason, value |-> <<>>]

\* a value returned without an error
Returns(v) == [throws |-> FALSE, reason |-> "", value |-> v]

\* ethers.utils.parseEther of a text without sign: the amount in wei, or the
\* error ethers throws
parseEther(cs) ==
    IF ~IsPlainDecimal(cs) THEN Throws("invalid decimal value")
    ELSE LET pt == PointAt(cs)
             whole == ToDigits(SubSeq(cs, 1, pt - 1))
             frac == StripRight(ToDigits(SubSeq(cs, pt + 1, Len(cs))))
         IN  IF Len(frac) > EtherDecimals
             THEN Throws("fractional component exceeds decimals")
             ELSE Returns(StripLeft(whole \o frac
                                    \o Zeros(EtherDecimals - Len(frac))))

\* ethers.utils.formatEther of an amount in wei
formatEther(w) ==
    LET padded == Zeros(Max(0, EtherDecimals + 1 - Len(w))) \o w
        cut == Len(padded) - EtherDecimals
        whole == SubSeq(padded, 1, cut)
        frac == StripRight(SubSeq(padded, cut + 1, Len(padded)))
    IN  ToChars(whole) \o <<".">> \o ToChars(IF frac = <<>> THEN <<0>> ELSE frac)

(***************************************************************************)
(* The world outside the component: wallet, chain, price service, clock    *)
(***************************************************************************)
\* addresses as the wallet reports them (lower case) and as the contract
\* returns them (checksum case)
AcctA == <<"0", "x", "a", "b">>

AcctB == <<"0", "x", "c", "d">>

ChainA == <<"0", "x", "A", "b">>

ChainB == <<"0", "x", "C", "d">>

WalletAccounts == {AcctA, AcctB}

Ether(text) == parseEther(text).value

\* provider.getBalance(address)
ChainBalance(address) ==
    IF address = AcctA THEN Ether(<<"1", "0">>) ELSE Ether(<<"0", ".", "2", "5">>)

\* the records of the contract's activeLoans and loanRequests
LoanA1 == [id |-> 1, borrower |-> ChainA, loanAmount |-> Ether(<<"1", ".", "5">>),
           interestRate |-> 5, stake |-> Ether(<<"3">>)]

LoanB2 == [id |-> 2, borrower |-> ChainB, loanAmount |-> Ether(<<"1">>),
           interestRate |-> 7, stake |-> Ether(<<"2">>)]

RequestA3 == [id |-> 3, borrower |-> ChainA, loanAmount |-> Ether(<<"2">>),
              interestRate |-> 5, stake |-> Ether(<<"4">>)]

RequestA4 == [id |-> 4, borrower |-> AcctA, loanAmount |-> Ether(<<"0", ".", "1">>),
              interestRate |-> 3, stake |-> Ether(<<"1">>)]

RequestB5 == [id |-> 5, borrower |-> AcctB, loanAmount |-> Ether(<<"1">>),
              interestRate |-> 0, stake |-> Ether(<<"2">>)]

\* what contract.getAllActiveLoans() can return: the active loans and the
\* requests, each in the contract's order
ChainViews ==
    { [loans |-> <<LoanA1, LoanB2>>, requests |-> <<RequestB5, RequestA3>>],
      [loans |-> <<LoanB2, LoanA1>>, requests |-> <<RequestA4, RequestA3>>] }

\* what contract.activeLoans(id) can return
ChainLoans == <<LoanA1, LoanB2>>

\* the price service's answers: data.ethereum.usd as the JSON text spells it
PriceTexts == << <<"2", "0", "0", "0">>, <<"1", "8", "3", "4", ".", "2", "7">> >>

\* error.reason of a rejected call: absent, or the contract's revert reason
Reasons == {"", "execution reverted"}

DayMs == 86400000

\* the instants the clock shows, in ms from the midnight that starts day 0
ClockTimes == {DayMs \div 2, 10 * DayMs}

\* the value of a date input is a day (its UTC midnight), or empty
NoDate == -1

Empty == <<>>

(***************************************************************************)
(* State                                                                   *)
(***************************************************************************)
VARIABLES
    formData,       \* useState: amount, date, collateral, interestRate
    account,        \* useState
    balance,        \* useState
    contract,       \* useState: TRUE when a contract handle is bound
    activeLoans,    \* useState
    showToast,      \* useState
    toastMessage,   \* useState
    toastVariant,   \* useState
    ethereum,       \* window.ethereum is injected
    listening,      \* the accountsChanged listener is registered
    mounted,        \* the mount effect has run
    now,            \* the clock
    tasks,          \* the async functions suspended at an await
    failed,         \* the task whose awaited call has just been rejected
    nOps,           \* user operations and wallet notifications so far
    loaded          \* what the contract returned to the latest refresh that
                    \* got an answer, and the account of that refresh

vars == <<formData, account, balance, contract, activeLoans, showToast,
          toastMessage, toastVariant, ethereum, listening, mounted, now,
          tasks, failed, nOps, loaded>>

toastVars == <<showToast, toastMessage, toastVariant>>

MaxTasks == 2

\* the longest list a view of the chain yields
MaxRows == 3

MaxOps == 2

EmptyForm == [amount |-> Empty, date |-> NoDate, collateral |-> Empty,
              interestRate |-> Empty]

NoArgs == [principal |-> <<>>, duration |-> 0, rate |-> 0, value |-> <<>>]

NoTask == [kind |-> "none", pc |-> "none", account |-> Empty,
           contract |-> FALSE, loanId |-> 0, args |-> NoArgs, txs |-> 0]

Slots == 1..MaxTasks

HasFreeSlot == Len(tasks) < MaxTasks

\* an async function suspends at its first await
Start(task) == tasks' = Append(tasks, task)

\* an async function returns
Finish(t) == tasks' = SubSeq(tasks, 1, t - 1) \o SubSeq(tasks, t + 1, Len(tasks))

Init ==
    /\ formData = EmptyForm
    /\ account = Empty
    /\ balance = Empty
    /\ contract = FALSE
    /\ activeLoans = <<>>
    /\ showToast = FALSE
    /\ toastMessage = ""
    /\ toastVariant = "success"
    /\ ethereum \in BOOLEAN
    /\ listening = FALSE
    /\ mounted = FALSE
    /\ now = DayMs \div 2
    /\ tasks = <<>>
    /\ failed = <<>>
    /\ nOps = 0
    /\ loaded = <<>>

\* a notification that takes the new message and keeps the old severity
showToastKeepingVariant(message, variant) ==
    /\ toastMessage' = message
    /\ toastVariant' = toastVariant
    /\ showToast' = TRUE

\* showToastMessage(message, variant)
showToastMessage(message, variant) ==
    /\ toastMessage' = message
    /\ toastVariant' = variant
    /\ showToast' = TRUE

\* error.reason || fallback
ReasonOr(reason, fallback) == IF reason = "" THEN fallback ELSE reason

(***************************************************************************)
(* The form (handleInputChange)                                            *)
(***************************************************************************)
\* the values the inputs deliver
AmountInputs == {<<"1", ".", "0">>, <<"1", "e", "5">>}

CollateralInputs == {<<"2", ".", "0">>}

DateInputs == {10}

RateInputs == <<Empty, <<"5">>, <<"0", ".", "5">>, <<"7">>, <<"7", ".", "5">>,
                <<"-", "1">>>>

RateIndex(value) == CHOOSE i \in 1..Len(RateInputs) : RateInputs[i] = value

ParsedRates == TupleOf(LAMBDA i : ParseFloatOf(RateInputs[i]), Len(RateInputs))

\* Math.floor(x)
Floored(x) == [nan |-> x.nan, v |-> IF x.nan THEN 0 ELSE FloorOf(x)]

FlooredRates ==
    TupleOf(LAMBDA i : Floored(NumberOf(RateInputs[i])), Len(RateInputs))

\* parseFloat(value) of an interest-rate input
parseFloat(value) == ParsedRates[RateIndex(value)]

Seven == StringToNumber(<<"7">>)

\* a limit that shuts out 7 itself
AtLeastMax(rate) == ~rate.nan /\ ~rate.neg /\ ~FGreater(Seven, rate.abs)

\* rate > 7
ExceedsMax(rate) == ~rate.nan /\ ~rate.neg /\ FGreater(rate.abs, Seven)

\* a check that lets every rate below the limit through
NeverNegative(rate) == FALSE

\* rate < 0
IsNegative(rate) == ~rate.nan /\ rate.neg /\ rate.abs # FZero

\* the branch of handleInputChange an input takes
Verdict(name, rate) ==
    IF name # "interestRate" THEN "accept"
    ELSE IF ExceedsMax(rate) THEN "exceeds"
    ELSE IF IsNegative(rate) THEN "negative"
    ELSE "accept"

\* the input name delivers value; rate is parseFloat(value)
handleInputChange(name, value, rate) ==
    /\ mounted
    /\ IF Verdict(name, rate) = "exceeds"
       THEN /\ showToastMessage("Interest rate cannot exceed 7%", "warning")
            /\ UNCHANGED formData
       ELSE IF Verdict(name, rate) = "negative"
       THEN /\ showToastMessage("Interest rate cannot be negative", "warning")
            /\ UNCHANGED formData
       ELSE /\ formData' = [formData EXCEPT ![name] = value]
            /\ UNCHANGED toastVars
    /\ failed' = <<>>
    /\ UNCHANGED <<account, balance, contract, activeLoans, ethereum, loaded,
                   listening, mounted, now, tasks, nOps>>

FieldNames == {"amount", "interestRate", "date", "collateral"}

InputsOf(name) ==
    CASE name = "amount" -> AmountInputs
      [] name = "collateral" -> CollateralInputs
      [] name = "date" -> DateInputs
      [] name = "interestRate" -> {RateInputs[i] : i \in 1..Len(RateInputs)}

InputChange ==
    \E name \in FieldNames : \E value \in InputsOf(name) :
        handleInputChange(name, value,
                          IF name = "interestRate" THEN parseFloat(value) ELSE NaN)

(***************************************************************************)
(* Mount: connectWallet, loadContract, loadActiveLoans in sequence.  The   *)
(* effect's closure is the first render's: account '' and contract null.   *)
(***************************************************************************)
\* loadContract: new Web3Provider(window.ethereum) throws without a wallet
loadContract ==
    IF ethereum THEN contract' = TRUE ELSE contract' = contract

Mount ==
    /\ ~mounted
    /\ mounted' = TRUE
    /\ IF ethereum
       THEN /\ Start([NoTask EXCEPT !.kind = "init", !.pc = "accounts"])
            /\ UNCHANGED <<contract, toastVars>>
       ELSE \* connectWallet throws on window.ethereum.request and reports it,
            \* loadContract throws and reports it, loadActiveLoans returns
            /\ loadContract
            /\ showToastMessage("Error loading contract", "danger")
            /\ UNCHANGED tasks
    /\ failed' = <<>>
    /\ UNCHANGED <<formData, account, balance, activeLoans, ethereum, loaded,
                   listening, now, nOps>>

\* eth_requestAccounts answers
AccountsReturn(t) ==
    /\ t \in DOMAIN tasks
    /\ tasks[t].pc = "accounts"
    /\ \E ok \in BOOLEAN :
         IF ok
         THEN /\ failed' = <<>>
              /\ account' = AcctA
              /\ tasks' = [tasks EXCEPT ![t].pc = "balance", ![t].account = AcctA]
              /\ UNCHANGED <<contract, toastVars>>
         ELSE /\ failed' = <<tasks[t]>>
              /\ showToastMessage("Error connecting to wallet", "danger")
              /\ loadContract
              /\ Finish(t)
              /\ UNCHANGED account
    /\ UNCHANGED <<formData, balance, activeLoans, ethereum, loaded, listening,
                   mounted, now, nOps>>

(***************************************************************************)
(* loadActiveLoans                                                         *)
(***************************************************************************)
ActiveRow(loan) ==
    [loanId |-> loan.id, borrower |-> loan.borrower,
     loanAmount |-> formatEther(loan.loanAmount),
     interestRate |-> loan.interestRate,
     stake |-> formatEther(loan.stake), state |-> "ACTIVE"]

PendingRow(request) ==
    [loanId |-> request.id, borrower |-> request.borrower,
     loanAmount |-> formatEther(request.loanAmount),
     interestRate |-> request.interestRate,
     stake |-> formatEther(request.stake), state |-> "PENDING"]

\* a comparison that minds the letter case
IsOwnExact(loan, acct) == loan.borrower = acct

\* loan.borrower.toLowerCase() === account.toLowerCase()
IsOwn(loan, acct) == toLowerCase(loan.borrower) = toLowerCase(acct)

\* a refresh that adds its rows below the rows already displayed
combinedWithPrevious(view, acct) ==
    activeLoans
    \o SelectSeq(TupleOf(LAMBDA i : ActiveRow(view.loans[i]), Len(view.loans))
                 \o TupleOf(LAMBDA i : PendingRow(view.requests[i]),
                            Len(view.requests)),
                 LAMBDA loan : IsOwn(loan, acct))

\* the rows loadActiveLoans displays for what the contract returned
combinedLoans(view, acct) ==
    LET activeLoansData == TupleOf(LAMBDA i : ActiveRow(view.loans[i]), Len(view.loans))
        requestLoansData == TupleOf(LAMBDA i : PendingRow(view.requests[i]),
                                    Len(view.requests))
    IN  SelectSeq(activeLoansData \o requestLoansData, LAMBDA loan : IsOwn(loan, acct))

\* a guard that looks at the account only
AccountGuard(boundContract, acct) == acct # Empty

\* if (!contract || !account) return, with the values the caller captured
LoadGuard(boundContract, acct) == boundContract /\ acct # Empty

\* getAllActiveLoans answers: the list is rebuilt, or the failure reported;
\* a loan submission that awaited the refresh then clears its form
LoansReturn(t) ==
    /\ t \in DOMAIN tasks
    /\ tasks[t].pc = "loans"
    /\ \E ok \in BOOLEAN, view \in ChainViews :
         /\ failed' = IF ok THEN <<>> ELSE <<tasks[t]>>
         /\ IF ok
            THEN /\ activeLoans' = combinedLoans(view, tasks[t].account)
                 /\ loaded' = <<[view |-> view, account |-> tasks[t].account]>>
            ELSE UNCHANGED <<activeLoans, loaded>>
         /\ IF tasks[t].kind = "submit"
            THEN /\ formData' = EmptyForm
                 /\ showToastMessage("Loan request created successfully", "success")
            ELSE /\ UNCHANGED formData
                 /\ IF ok THEN UNCHANGED toastVars
                    ELSE showToastMessage("Error loading loans", "danger")
    /\ Finish(t)
    /\ UNCHANGED <<account, balance, contract, ethereum, listening, mounted,
                   now, nOps>>

\* the Refresh Requests button
Refresh ==
    /\ mounted
    /\ nOps < MaxOps
    /\ nOps' = nOps + 1
    /\ IF LoadGuard(contract, account)
       THEN /\ HasFreeSlot
            /\ Start([NoTask EXCEPT !.kind = "refresh", !.pc = "loans",
                                    !.account = account, !.contract = contract])
       ELSE UNCHANGED tasks
    /\ failed' = <<>>
    /\ UNCHANGED <<formData, account, balance, contract, activeLoans, toastVars,
                   ethereum, loaded, listening, mounted, now>>

(***************************************************************************)
(* Balance reads: connectWallet, the accountsChanged listener and          *)
(* updateBalance                                                           *)
(***************************************************************************)
\* one fallback text for both operations
FallbackOfRepay(kind) == "Error repaying loan"

\* error.reason || "Transaction failed", error.reason || "Error repaying loan"
Fallback(kind) ==
    IF kind = "submit" THEN "Transaction failed" ELSE "Error repaying loan"

\* provider.getBalance answers the task that awaits it
BalanceReturn(t) ==
    /\ t \in DOMAIN tasks
    /\ tasks[t].pc = "balance"
    /\ \E ok \in BOOLEAN, reason \in Reasons :
         LET task == tasks[t]
             read == ok /\ task.account # Empty
             shown == formatEther(ChainBalance(task.account))
         IN  /\ failed' = IF read THEN <<>> ELSE <<task>>
             /\ balance' = IF read THEN shown ELSE balance
             /\ CASE task.kind = "init" ->
                       \* connectWallet ends, then loadContract and the
                       \* loadActiveLoans of the first render run
                       /\ listening' = read
                       /\ loadContract
                       /\ IF read THEN UNCHANGED toastVars
                          ELSE showToastMessage("Error connecting to wallet", "danger")
                       /\ Finish(t)
                       /\ UNCHANGED formData
                  [] task.kind = "listener" ->
                       /\ Finish(t)
                       /\ UNCHANGED <<listening, contract, toastVars, formData>>
                  [] OTHER ->
                       \* updateBalance in createLoanRequest and repayLoan,
                       \* followed by loadActiveLoans
                       /\ IF ~read
                          THEN /\ showToastMessage(ReasonOr(reason, Fallback(task.kind)),
                                                   "danger")
                               /\ Finish(t)
                               /\ UNCHANGED formData
                          ELSE IF LoadGuard(task.contract, task.account)
                          THEN /\ tasks' = [tasks EXCEPT ![t].pc = "loans"]
                               /\ UNCHANGED <<toastVars, formData>>
                          ELSE /\ Finish(t)
                               /\ IF task.kind = "submit"
                                  THEN /\ formData' = EmptyForm
                                       /\ showToastMessage(
                                              "Loan request created successfully",
                                              "success")
                                  ELSE UNCHANGED <<toastVars, formData>>
                       /\ UNCHANGED <<listening, contract>>
    /\ UNCHANGED <<account, activeLoans, ethereum, loaded, mounted, now, nOps>>

\* the wallet announces another account
AccountsChanged(a) ==
    /\ listening
    /\ nOps < MaxOps
    /\ HasFreeSlot
    /\ nOps' = nOps + 1
    /\ account' = a
    /\ Start([NoTask EXCEPT !.kind = "listener", !.pc = "balance", !.account = a])
    /\ failed' = <<>>
    /\ UNCHANGED <<formData, balance, contract, activeLoans, toastVars, ethereum, loaded,
                   listening, mounted, now>>

(***************************************************************************)
(* createLoanRequest                                                       *)
(***************************************************************************)
\* Math.ceil(a / b) for b > 0
CeilDiv(a, b) == 0 - ((0 - a) \div b)

\* the days counted with the day of submission included
durationInclusive(date, clock) == CeilDiv(date * DayMs - clock, DayMs) + 1

\* the days counted in whole days that have passed
durationElapsed(date, clock) == (date * DayMs - clock) \div DayMs

\* Math.ceil((new Date(formData.date) - new Date()) / (1000 * 60 * 60 * 24))
durationInDays(date, clock) == CeilDiv(date * DayMs - clock, DayMs)

\* Math.floor(Number(formData.interestRate))
FloorRate(value) == FlooredRates[RateIndex(value)]

\* the arguments of contract.createLoanRequest
LoanArgs(form, clock) ==
    [principal |-> parseEther(form.amount).value,
     duration |-> durationInDays(form.date, clock),
     rate |-> FloorRate(form.interestRate).v,
     value |-> parseEther(form.collateral).value]

\* the browser dispatches the submit event only when every required field
\* is filled in
FormValid(form) ==
    /\ form.amount # Empty
    /\ form.interestRate # Empty
    /\ form.date # NoDate
    /\ form.collateral # Empty

\* the form is submitted: up to the await of the nonce query
createLoanRequest ==
    /\ mounted
    /\ FormValid(formData)
    /\ nOps < MaxOps
    /\ nOps' = nOps + 1
    /\ IF ~contract
       THEN UNCHANGED <<tasks, toastVars>>
       ELSE IF parseEther(formData.amount).throws
       THEN /\ showToastMessage(parseEther(formData.amount).reason, "danger")
            /\ UNCHANGED tasks
       ELSE IF parseEther(formData.collateral).throws
       THEN /\ showToastMessage(parseEther(formData.collateral).reason, "danger")
            /\ UNCHANGED tasks
       ELSE IF durationInDays(formData.date, now) <= 0
       THEN /\ showToastMessage("Repayment date must be in the future", "warning")
            /\ UNCHANGED tasks
       ELSE /\ HasFreeSlot
            /\ Start([NoTask EXCEPT !.kind = "submit", !.pc = "nonce",
                                    !.account = account, !.contract = contract,
                                    !.args = LoanArgs(formData, now)])
            /\ UNCHANGED toastVars
    /\ failed' = <<>>
    /\ UNCHANGED <<formData, account, balance, contract, activeLoans, ethereum, loaded,
                   listening, mounted, now>>

\* provider.getTransactionCount answers; the transaction is then handed to
\* the contract handle
NonceReturn(t) ==
    /\ t \in DOMAIN tasks
    /\ tasks[t].pc = "nonce"
    /\ \E ok \in BOOLEAN, reason \in Reasons :
         IF ~ok \/ tasks[t].account = Empty
         THEN /\ failed' = <<tasks[t]>>
              /\ showToastMessage(ReasonOr(reason, "Transaction failed"), "danger")
              /\ Finish(t)
         ELSE /\ failed' = <<>>
              /\ tasks' = [tasks EXCEPT ![t].pc = "send", ![t].txs = @ + 1]
              /\ UNCHANGED toastVars
    /\ UNCHANGED <<formData, account, balance, contract, activeLoans, ethereum, loaded,
                   listening, mounted, now, nOps>>

\* the wallet signs and broadcasts the transaction, or refuses
SendReturn(t) ==
    /\ t \in DOMAIN tasks
    /\ tasks[t].pc = "send"
    /\ \E ok \in BOOLEAN, reason \in Reasons :
         IF ok
         THEN /\ failed' = <<>>
              /\ tasks' = [tasks EXCEPT ![t].pc = "wait"]
              /\ UNCHANGED toastVars
         ELSE /\ failed' = <<tasks[t]>>
              /\ showToastMessage(ReasonOr(reason, Fallback(tasks[t].kind)), "danger")
              /\ Finish(t)
    /\ UNCHANGED <<formData, account, balance, contract, activeLoans, ethereum, loaded,
                   listening, mounted, now, nOps>>

\* a wait whose failure is reported and followed by the refreshes all the same
WaitReturnRegardless(t) ==
    /\ t \in DOMAIN tasks
    /\ tasks[t].pc = "wait"
    /\ \E ok \in BOOLEAN, reason \in Reasons :
         /\ failed' = IF ok THEN <<>> ELSE <<tasks[t]>>
         /\ tasks' = [tasks EXCEPT ![t].pc = "balance"]
         /\ IF ok
            THEN IF tasks[t].kind = "repay"
                 THEN showToastMessage("Loan repaid successfully", "success")
                 ELSE UNCHANGED toastVars
            ELSE showToastMessage(ReasonOr(reason, Fallback(tasks[t].kind)), "danger")
    /\ UNCHANGED <<formData, account, balance, contract, activeLoans, ethereum, loaded,
                   listening, mounted, now, nOps>>

\* tx.wait() answers: confirmed, or reverted; updateBalance comes next
WaitReturn(t) ==
    /\ t \in DOMAIN tasks
    /\ tasks[t].pc = "wait"
    /\ \E ok \in BOOLEAN, reason \in Reasons :
         IF ok
         THEN /\ failed' = <<>>
              /\ tasks' = [tasks EXCEPT ![t].pc = "balance"]
              /\ IF tasks[t].kind = "repay"
                 THEN showToastMessage("Loan repaid successfully", "success")
                 ELSE UNCHANGED toastVars
         ELSE /\ failed' = <<tasks[t]>>
              /\ showToastMessage(ReasonOr(reason, Fallback(tasks[t].kind)), "danger")
              /\ Finish(t)
    /\ UNCHANGED <<formData, account, balance, contract, activeLoans, ethereum, loaded,
                   listening, mounted, now, nOps>>

(***************************************************************************)
(* repayLoan                                                               *)
(***************************************************************************)
\* loanAmountInEth * currentEthPrice
loanAmountInUSD(loanAmountInEth, currentEthPrice) ==
    FMul(StringToNumber(loanAmountInEth), currentEthPrice)

\* loanAmountInUSD / currentEthPrice
requiredEthAmount(usd, currentEthPrice) == FDiv(usd, currentEthPrice)

\* ethers.utils.parseEther(requiredEthAmount.toString())
requiredEthWei(amount) == parseEther(NumberToString(amount))

\* requiredEthWei.mul(loan.interestRate).div(100)
interest(wei, rate) == BDiv(BMul(wei, NatToB(rate)), <<1, 0, 0>>)

\* requiredEthWei.add(interest), or the error parseEther threw
DueOn(wei, rate) ==
    IF wei.throws THEN wei ELSE Returns(BAdd(wei.value, interest(wei.value, rate)))

\* totalDue of repayLoan for a loan of loanAmount wei at the price the
\* service returned
DueAt(loanAmount, rate, currentEthPrice) ==
    DueOn(requiredEthWei(requiredEthAmount(
              loanAmountInUSD(formatEther(loanAmount), currentEthPrice),
              currentEthPrice)),
          rate)

totalDue(loan, priceText) ==
    DueAt(loan.loanAmount, loan.interestRate, StringToNumber(priceText))

TotalDueTable ==
    TupleOf(LAMBDA i : TupleOf(LAMBDA j : totalDue(ChainLoans[i], PriceTexts[j]),
                               Len(PriceTexts)),
            Len(ChainLoans))

LoanIndex(id) == CHOOSE i \in 1..Len(ChainLoans) : ChainLoans[i].id = id

\* the value repayLoan attaches for loan id at the price number j
RepayValue(id, j) == TotalDueTable[LoanIndex(id)][j]

\* a Repay button of an ACTIVE row: up to the await of the loan read
repayLoan(row) ==
    /\ mounted
    /\ nOps < MaxOps
    /\ row \in 1..Len(activeLoans)
    /\ activeLoans[row].state = "ACTIVE"
    /\ nOps' = nOps + 1
    /\ IF ~contract THEN UNCHANGED tasks
       ELSE /\ HasFreeSlot
            /\ Start([NoTask EXCEPT !.kind = "repay", !.pc = "loan",
                                    !.account = account, !.contract = contract,
                                    !.loanId = activeLoans[row].loanId])
    /\ failed' = <<>>
    /\ UNCHANGED <<formData, account, balance, contract, activeLoans, toastVars,
                   ethereum, loaded, listening, mounted, now>>

\* contract.activeLoans(loanId) answers; the price is then fetched
LoanReturn(t) ==
    /\ t \in DOMAIN tasks
    /\ tasks[t].pc = "loan"
    /\ \E ok \in BOOLEAN, reason \in Reasons :
         IF ok
         THEN /\ failed' = <<>>
              /\ tasks' = [tasks EXCEPT
                    ![t].pc = "price",
                    ![t].args.principal = ChainLoans[LoanIndex(tasks[t].loanId)].loanAmount,
                    ![t].args.rate = ChainLoans[LoanIndex(tasks[t].loanId)].interestRate]
              /\ UNCHANGED toastVars
         ELSE /\ failed' = <<tasks[t]>>
              /\ showToastMessage(ReasonOr(reason, "Error repaying loan"), "danger")
              /\ Finish(t)
    /\ UNCHANGED <<formData, account, balance, contract, activeLoans, ethereum, loaded,
                   listening, mounted, now, nOps>>

\* a repayment that goes on without looking at what getEthPrice returned
PriceStepUnchecked(t, ok, due) ==
    IF due.throws
    THEN /\ showToastMessage(due.reason, "danger")
         /\ Finish(t)
    ELSE /\ tasks' = [tasks EXCEPT ![t].pc = "send", ![t].args.value = due.value,
                                   ![t].txs = @ + 1]
         /\ UNCHANGED toastVars

\* repayLoan from the price to the transaction: due is totalDue, or the
\* error that parseEther threw
PriceStep(t, ok, due) ==
    IF ~ok
    THEN /\ showToastMessage("Error fetching ETH price", "danger")
         /\ Finish(t)
    ELSE IF due.throws
    THEN /\ showToastMessage(due.reason, "danger")
         /\ Finish(t)
    ELSE /\ tasks' = [tasks EXCEPT ![t].pc = "send", ![t].args.value = due.value,
                                   ![t].txs = @ + 1]
         /\ UNCHANGED toastVars

\* getEthPrice answers: a price, or null after a failed fetch
PriceReturn(t) ==
    /\ t \in DOMAIN tasks
    /\ tasks[t].pc = "price"
    /\ \E ok \in BOOLEAN, j \in 1..Len(PriceTexts) :
         /\ failed' = IF ok THEN <<>> ELSE <<tasks[t]>>
         /\ PriceStep(t, ok, RepayValue(tasks[t].loanId, j))
    /\ UNCHANGED <<formData, account, balance, contract, activeLoans, ethereum, loaded,
                   listening, mounted, now, nOps>>

(***************************************************************************)
(* The notification and the clock                                          *)
(***************************************************************************)
\* the Toast's autohide timer (delay 3000) calls onClose
ToastAutohide ==
    /\ showToast
    /\ showToast' = FALSE
    /\ failed' = <<>>
    /\ UNCHANGED <<formData, account, balance, contract, activeLoans,
                   toastMessage, toastVariant, ethereum, loaded, listening, mounted,
                   now, tasks, nOps>>

Tick ==
    /\ \E later \in ClockTimes : later > now /\ now' = later
    /\ failed' = <<>>
    /\ UNCHANGED <<formData, account, balance, contract, activeLoans, toastVars,
                   ethereum, loaded, listening, mounted, tasks, nOps>>

Next ==
    \/ Mount
    \/ InputChange
    \/ createLoanRequest
    \/ Refresh
    \/ \E row \in 1..MaxRows : repayLoan(row)
    \/ \E a \in WalletAccounts : AccountsChanged(a)
    \/ \E t \in Slots : AccountsReturn(t)
    \/ \E t \in Slots : BalanceReturn(t)
    \/ \E t \in Slots : NonceReturn(t)
    \/ \E t \in Slots : SendReturn(t)
    \/ \E t \in Slots : WaitReturn(t)
    \/ \E t \in Slots : LoansReturn(t)
    \/ \E t \in Slots : LoanReturn(t)
    \/ \E t \in Slots : PriceReturn(t)
    \/ ToastAutohide
    \/ Tick

Spec == Init /\ [][Next]_vars

\* the Toast's timer is started whenever a notification is shown, and fires
FairSpec == Spec /\ WF_vars(ToastAutohide)

(***************************************************************************)
(* C1                                                                      *)
(***************************************************************************)
CasePairs == {<<"A", "a">>, <<"B", "b">>, <<"C", "c">>, <<"D", "d">>,
              <<"E", "e">>, <<"F", "f">>}

\* the addresses a and b are equal, letter case ignored
SameAddress(a, b) ==
    /\ Len(a) = Len(b)
    /\ \A i \in 1..Len(a) :
          a[i] = b[i] \/ <<a[i], b[i]>> \in CasePairs \/ <<b[i], a[i]>> \in CasePairs

\* the records of a view in source order: the active loans, then the requests
Records(view) ==
    [k \in 1..(Len(view.loans) + Len(view.requests)) |->
        IF k <= Len(view.loans)
        THEN [id |-> view.loans[k].id, borrower |-> view.loans[k].borrower,
              state |-> "ACTIVE"]
        ELSE [id |-> view.requests[k - Len(view.loans)].id,
              borrower |-> view.requests[k - Len(view.loans)].borrower,
              state |-> "PENDING"]]

OwnRecords(view, acct) ==
    {k \in DOMAIN Records(view) : SameAddress(Records(view)[k].borrower, acct)}

\* list holds exactly the records of view whose borrower is acct, each once,
\* in source order
IsFilteredView(list, view, acct) ==
    /\ Len(list) = Cardinality(OwnRecords(view, acct))
    /\ \E f \in [1..Len(list) -> OwnRecords(view, acct)] :
          /\ \A i, j \in 1..Len(list) : i < j => f[i] < f[j]
          /\ \A i \in 1..Len(list) :
                /\ list[i].loanId = Records(view)[f[i]].id
                /\ list[i].borrower = Records(view)[f[i]].borrower
                /\ list[i].state = Records(view)[f[i]].state

\* C1: the displayed list is empty until a refresh completes, and from then
\* on it is exactly the records that the contract returned to the latest
\* completed refresh whose borrower is that refresh's connected address,
\* letter case ignored, the active loans in source order and then the
\* requests in source order; nothing of an earlier list survives.
C1_RefreshShowsOwnRecords ==
    IF loaded = <<>> THEN activeLoans = <<>>
    ELSE IsFilteredView(activeLoans, loaded[1].view, loaded[1].account)

\* a refresh has replaced the list by three records of the connected
\* account, which the contract spells in another letter case
C1_Witness ==
    /\ loaded # <<>>
    /\ Len(activeLoans) = 3
    /\ \E i \in 1..3 : activeLoans[i].borrower # loaded[1].account

(***************************************************************************)
(* C2                                                                      *)
(***************************************************************************)
\* the position of the decimal point of a text, or one past its end
DotOf(cs) ==
    IF \E i \in 1..Len(cs) : cs[i] = "."
    THEN CHOOSE i \in 1..Len(cs) : cs[i] = "."
    ELSE Len(cs) + 1

RECURSIVE WholeOf(_)
\* the natural number that a text of digits spells
WholeOf(cs) == IF cs = <<>> THEN 0 ELSE 10 * WholeOf(Front(cs)) + DigitVal(Last(cs))

\* the tenths in a text of digits with at most one decimal
TenthsOf(cs) ==
    10 * WholeOf(SubSeq(cs, 1, DotOf(cs) - 1))
    + (IF DotOf(cs) < Len(cs) THEN DigitVal(cs[DotOf(cs) + 1]) ELSE 0)

\* the value of a rate text, in tenths of a percent
RateTenths(cs) == IF cs[1] = "-" THEN 0 - TenthsOf(Tail(cs)) ELSE TenthsOf(cs)

InsideRange(cs) == 0 <= RateTenths(cs) /\ RateTenths(cs) <= 70

NumericRates == {RateInputs[i] : i \in 2..Len(RateInputs)}

\* C2: an interest-rate input event whose value is outside [0,7] leaves the
\* form as it was and shows a warning; one whose value is inside [0,7] puts
\* the value in the form's interest-rate field and leaves the notification
\* as it was.
C2_RateInputChecked ==
    [][\A value \in NumericRates :
          handleInputChange("interestRate", value, parseFloat(value))
          => IF InsideRange(value)
             THEN /\ formData' = [formData EXCEPT !.interestRate = value]
                  /\ UNCHANGED toastVars
             ELSE /\ formData' = formData
                  /\ showToast'
                  /\ toastVariant' = "warning"]_vars

\* the rate 7 was accepted and a later 7.5 refused
C2_Witness ==
    /\ formData.interestRate = <<"7">>
    /\ showToast
    /\ toastMessage = "Interest rate cannot exceed 7%"

(***************************************************************************)
(* C3                                                                      *)
(***************************************************************************)
\* a text that spells an amount of ether: digits with at most one point
SpellsAmount(cs) ==
    /\ \E i \in 1..Len(cs) : IsDigitChar(cs[i])
    /\ \A i \in 1..Len(cs) : IsDigitChar(cs[i]) \/ i = DotOf(cs)

\* the due date of the form is not strictly after the clock
DateNotAfterNow == formData.date * DayMs <= now

\* C3 as the specification states it: a submission whose due date is not
\* strictly after the current time issues no network call and shows the
\* notification that the date must be in the future.
C3_PastDateAlwaysNotified ==
    [][(createLoanRequest /\ DateNotAfterNow)
       => /\ tasks' = tasks
          /\ showToast'
          /\ toastMessage' = "Repayment date must be in the future"]_vars

\* C3: a submission whose due date is not strictly after the current time
\* issues no network call; when a contract handle is bound and the amount
\* and the collateral both spell an amount of ether, it shows the warning
\* that the date must be in the future.
C3_PastDateBlocked ==
    [][(createLoanRequest /\ DateNotAfterNow)
       => /\ tasks' = tasks
          /\ (contract /\ SpellsAmount(formData.amount)
                        /\ SpellsAmount(formData.collateral))
             => /\ showToast'
                /\ toastVariant' = "warning"
                /\ toastMessage' = "Repayment date must be in the future"]_vars

\* a submission on the due day itself was refused
C3_Witness ==
    /\ formData.date * DayMs = now
    /\ showToast
    /\ toastMessage = "Repayment date must be in the future"

(***************************************************************************)
(* C4                                                                      *)
(***************************************************************************)
\* principal + floor(principal * rate / 100), in wei
PrincipalPlusInterest(principal, rate) ==
    BAdd(principal, BDiv(BMul(principal, NatToB(rate)), <<1, 0, 0>>))

\* C4 as the specification states it: the value attached to a repay
\* transaction is principal + floor(principal * rate / 100) in wei, whatever
\* positive price was fetched.
C4_RepayTotalIsPrincipalPlusInterest ==
    \A t \in DOMAIN tasks :
        (tasks[t].kind = "repay" /\ tasks[t].txs > 0)
        => tasks[t].args.value
           = PrincipalPlusInterest(tasks[t].args.principal, tasks[t].args.rate)

(***************************************************************************)
(* C5                                                                      *)
(***************************************************************************)
\* the sequence s without its element number t
Without(s, t) == SubSeq(s, 1, t - 1) \o SubSeq(s, t + 1, Len(s))

\* the step is the failure of the price fetch of a repayment
PriceFetchFails == failed' # <<>> /\ failed'[1].pc = "price"

\* C5: when the price fetch of a repayment fails, the repayment ends with a
\* danger notification; it has sent no transaction, and the balance and the
\* loan list are as they were.
C5_PriceFailureAborts ==
    [][PriceFetchFails
       => /\ showToast'
          /\ toastVariant' = "danger"
          /\ failed'[1].kind = "repay"
          /\ failed'[1].txs = 0
          /\ \E t \in DOMAIN tasks :
                tasks[t] = failed'[1] /\ tasks' = Without(tasks, t)
          /\ UNCHANGED <<balance, activeLoans, loaded>>]_vars

\* a price fetch has just failed
C5_Witness ==
    /\ failed # <<>>
    /\ failed[1].pc = "price"
    /\ toastMessage = "Error fetching ETH price"

(***************************************************************************)
(* C6                                                                      *)
(***************************************************************************)
\* the digits after the decimal point of a text
DecimalsOf(cs) == SubSeq(cs, DotOf(cs) + 1, Len(cs))

\* an amount of ether in wei: the digits of the text, the point taken out,
\* filled up to eighteen decimals
InBaseUnits(cs) ==
    StripLeft(ToDigits(SubSeq(cs, 1, DotOf(cs) - 1)) \o ToDigits(DecimalsOf(cs))
              \o Zeros(18 - Len(DecimalsOf(cs))))

\* the least number of days that reaches from the clock to the date
DaysUntil(date, clock) ==
    CHOOSE n \in 1..(date + 1) :
        (n - 1) * DayMs < date * DayMs - clock /\ date * DayMs - clock <= n * DayMs

\* a rate text that is not negative, rounded down to an integer
RoundedDown(cs) == RateTenths(cs) \div 10

\* a contract handle is bound, the amounts are amounts and the date is ahead
FormIsValid ==
    /\ contract
    /\ SpellsAmount(formData.amount)
    /\ SpellsAmount(formData.collateral)
    /\ ~DateNotAfterNow

\* C6: one submission of a valid form starts one submission, which holds the
\* arguments principal = the amount in wei, duration = the days from now to
\* the due date rounded up, rate = the rate input rounded down, value = the
\* collateral in wei; a submission makes the contract call exactly once,
\* with these arguments, when its nonce query is answered, and never again.
C6_OneCallPerSubmission ==
    /\ [][(createLoanRequest /\ FormIsValid)
          => /\ Len(tasks') = Len(tasks) + 1
             /\ SubSeq(tasks', 1, Len(tasks)) = tasks
             /\ tasks'[Len(tasks')].kind = "submit"
             /\ tasks'[Len(tasks')].txs = 0
             /\ tasks'[Len(tasks')].args =
                   [principal |-> InBaseUnits(formData.amount),
                    duration |-> DaysUntil(formData.date, now),
                    rate |-> RoundedDown(formData.interestRate),
                    value |-> InBaseUnits(formData.collateral)]]_vars
    /\ [][\A t \in DOMAIN tasks :
             (tasks[t].kind = "submit" /\ NonceReturn(t) /\ failed' = <<>>)
             => tasks' = [tasks EXCEPT ![t].pc = "send", ![t].txs = 1]]_vars
    /\ [](\A t \in DOMAIN tasks :
             tasks[t].kind = "submit"
             => tasks[t].txs = IF tasks[t].pc = "nonce" THEN 0 ELSE 1)

\* amount 1.0, collateral 2.0, rate 5 and a date ten days ahead: the call
\* was made with duration 10, rate 5 and 2.0 ether attached
C6_Witness ==
    \E t \in DOMAIN tasks :
        /\ tasks[t].kind = "submit"
        /\ tasks[t].txs = 1
        /\ tasks[t].args = [principal |-> <<1>> \o Zeros(18), duration |-> 10,
                            rate |-> 5, value |-> <<2>> \o Zeros(18)]

(***************************************************************************)
(* C7                                                                      *)
(***************************************************************************)
\* C7 as the specification states it: once the transaction of a submission
\* is confirmed, the submission goes on to re-fetch the loan list, and when
\* the list has been fetched it empties the four form fields and shows a
\* success notification.
C7_ConfirmedIsRefreshedAndReset ==
    /\ [][\A t \in DOMAIN tasks :
             (tasks[t].kind = "submit" /\ tasks[t].pc = "balance" /\ BalanceReturn(t))
             => tasks' = [tasks EXCEPT ![t].pc = "loans"]]_vars
    /\ [][\A t \in DOMAIN tasks :
             (tasks[t].kind = "submit" /\ tasks[t].pc = "loans" /\ LoansReturn(t))
             => /\ formData' = EmptyForm
                /\ showToast'
                /\ toastVariant' = "success"]_vars

(***************************************************************************)
(* C8                                                                      *)
(***************************************************************************)
\* C8 as the specification states it: when a call that an operation awaits
\* has failed, the operation has caught the failure and a notification is
\* shown.
C8_EveryFailureIsNotified == failed # <<>> => showToast

(***************************************************************************)
(* C9                                                                      *)
(***************************************************************************)
\* C9: while no contract handle is bound, a submission and a refresh start
\* no call and leave the form, the loan list, the balance, the account and
\* the notification as they were; a repayment does the same, and cannot
\* even be asked for, because no row is displayed.
C9_UnboundIsNoOp ==
    /\ [][(~contract /\ (\/ createLoanRequest
                          \/ Refresh
                          \/ \E row \in 1..MaxRows : repayLoan(row)))
          => UNCHANGED <<tasks, formData, activeLoans, balance, account,
                         toastVars>>]_vars
    /\ [](~contract => activeLoans = <<>>)

\* a submission or a refresh ran with no contract handle bound, in the
\* time between the answer of the wallet and the binding
C9_Witness ==
    /\ ~contract
    /\ account # Empty
    /\ nOps > 0

(***************************************************************************)
(* C10                                                                     *)
(***************************************************************************)
Severities == {"success", "warning", "danger"}

\* the severity with which the component shows a message
SeverityOf(message) ==
    CASE message \in {"Interest rate cannot exceed 7%",
                      "Interest rate cannot be negative",
                      "Repayment date must be in the future"} -> "warning"
      [] message \in {"Loan request created successfully",
                      "Loan repaid successfully"} -> "success"
      [] OTHER -> "danger"

\* C10: the notification is one slot: its severity is always one of
\* success, warning and danger; a step that changes the message or the
\* severity shows the notification with the message and the severity of
\* the new notification, nothing of the previous one is kept; and a
\* notification that is shown is eventually hidden.
C10_SingleSlot ==
    /\ [](toastVariant \in Severities)
    /\ [][(toastMessage' # toastMessage \/ toastVariant' # toastVariant)
          => /\ showToast'
             /\ toastVariant' = SeverityOf(toastMessage')]_vars
    /\ (showToast ~> ~showToast)

\* a notification was shown, overwritten or not, and has been hidden
C10_Witness ==
    /\ ~showToast
    /\ toastMessage # ""

(***************************************************************************)
(* C11                                                                     *)
(***************************************************************************)
\* the contract reads of the loan list that are awaited
LoadsInFlight == Cardinality({t \in DOMAIN tasks : tasks[t].pc = "loans"})

\* the list is what one single refresh displays: one view of the chain,
\* filtered for one account
IsOneRefresh(list) ==
    \E view \in ChainViews, acct \in WalletAccounts : IsFilteredView(list, view, acct)

\* C11: refreshes that overlap are not cancelled: a contract read of the
\* list stops being awaited only when it is answered, one at a time; each
\* read that is answered with the records writes its own result, so the
\* list after two refreshes is the result of the one answered last; and the
\* list is at every state empty or the complete result of one refresh.
C11_OverlappingRefreshes ==
    /\ [][LoadsInFlight' < LoadsInFlight
          => /\ LoadsInFlight' = LoadsInFlight - 1
             /\ \E t \in DOMAIN tasks : LoansReturn(t)]_vars
    /\ [][\A t \in DOMAIN tasks :
             (/\ tasks[t].pc = "loans"
              /\ LoadsInFlight' < LoadsInFlight
              /\ failed' = <<>>
              /\ LoansReturn(t))
             => /\ loaded' # <<>>
                /\ loaded'[1].account = tasks[t].account
                /\ IsFilteredView(activeLoans', loaded'[1].view, tasks[t].account)]_vars
    /\ [](activeLoans = <<>> \/ IsOneRefresh(activeLoans))

\* a second refresh was started while the first still awaits its answer,
\* and the list on display is of an earlier refresh
C11_Witness ==
    /\ Len(tasks) = 2
    /\ tasks[1].kind = "refresh" /\ tasks[1].pc = "loans"
    /\ tasks[2].kind = "refresh" /\ tasks[2].pc = "loans"

(***************************************************************************)
(* C12                                                                     *)
(***************************************************************************)
\* the step of a submission or a repayment before its confirmation
StepBeforeConfirmation(t) ==
    \/ NonceReturn(t)
    \/ LoanReturn(t)
    \/ PriceReturn(t)
    \/ SendReturn(t)

\* C12: in a submission and in a repayment no step before the confirmation
\* reads the balance or the loan list, or starts to: the operation ends or
\* goes on towards the confirmation; when the confirmation arrives the
\* balance query starts, and it is the first of the two refreshes; when the
\* transaction is rejected or reverted the operation ends and neither
\* refresh happens.
C12_RefreshAfterConfirmation ==
    /\ [][\A t \in DOMAIN tasks :
             (tasks[t].pc \in {"nonce", "loan", "price", "send"}
              /\ StepBeforeConfirmation(t))
             => /\ UNCHANGED <<balance, activeLoans, loaded>>
                /\ \/ tasks' = Without(tasks, t)
                   \/ /\ Len(tasks') = Len(tasks)
                      /\ tasks'[t].pc \in {"price", "send", "wait"}
                      /\ tasks' = [tasks EXCEPT ![t] = tasks'[t]]]_vars
    /\ [][\A t \in DOMAIN tasks :
             (tasks[t].pc = "wait" /\ WaitReturn(t))
             => /\ UNCHANGED <<balance, activeLoans, loaded>>
                /\ IF failed' = <<>>
                   THEN tasks' = [tasks EXCEPT ![t].pc = "balance"]
                   ELSE tasks' = Without(tasks, t)]_vars
    /\ [](\A t \in DOMAIN tasks :
             (tasks[t].kind \in {"submit", "repay"}
              /\ tasks[t].pc \in {"balance", "loans"})
             => tasks[t].txs = 1)

\* a repayment was confirmed, has read the balance and reads the loan list
C12_Witness ==
    \E t \in DOMAIN tasks :
        /\ tasks[t].kind = "repay"
        /\ tasks[t].pc = "loans"

(***************************************************************************)
(* C13                                                                     *)
(***************************************************************************)
\* the texts a failed submission can show: the reason of the error, or the
\* fallback
FailureTexts == (Reasons \ {""}) \cup {"Transaction failed"}

\* the step is a submission whose amount or collateral does not convert
ConversionFails ==
    /\ createLoanRequest
    /\ contract
    /\ ~(SpellsAmount(formData.amount) /\ SpellsAmount(formData.collateral))

\* the step is the failure of the nonce query, of the contract call or of
\* the confirmation of a submission
SubmissionCallFails ==
    /\ failed' # <<>>
    /\ failed'[1].kind = "submit"
    /\ failed'[1].pc \in {"nonce", "send", "wait"}

\* C13: no step of a submission up to its confirmation changes the form,
\* the loan list or the balance; a submission that fails at the conversion
\* of its inputs, at the nonce query, at the contract call or at the
\* confirmation shows a danger notification with the reason of the error
\* or the text "Transaction failed", and ends there: it has made at most
\* the one contract call and makes no other.
C13_FailedSubmissionFrame ==
    /\ [][createLoanRequest => UNCHANGED <<formData, activeLoans, balance>>]_vars
    /\ [][\A t \in DOMAIN tasks :
             (/\ tasks[t].kind = "submit"
              /\ tasks[t].pc \in {"nonce", "send", "wait"}
              /\ (NonceReturn(t) \/ SendReturn(t) \/ WaitReturn(t)))
             => UNCHANGED <<formData, activeLoans, balance>>]_vars
    /\ [][ConversionFails
          => /\ tasks' = tasks
             /\ showToast'
             /\ toastVariant' = "danger"
             /\ toastMessage' = "invalid decimal value"]_vars
    /\ [][SubmissionCallFails
          => /\ showToast'
             /\ toastVariant' = "danger"
             /\ toastMessage' \in FailureTexts
             /\ failed'[1].txs <= 1
             /\ \E t \in DOMAIN tasks :
                   tasks[t] = failed'[1] /\ tasks' = Without(tasks, t)]_vars

\* the confirmation of a submission has just failed without a reason, and
\* the form still holds what was submitted
C13_Witness ==
    /\ failed # <<>>
    /\ failed[1].kind = "submit"
    /\ failed[1].pc = "wait"
    /\ toastMessage = "Transaction failed"
    /\ FormValid(formData)

(***************************************************************************)
(* C14                                                                     *)
(***************************************************************************)
\* C14: every createLoanRequest transaction that a submission has sent
\* carries an integer interest rate from 0 to 7 and a duration of at least
\* one day.
C14_SentRateAndDuration ==
    \A t \in DOMAIN tasks :
        (tasks[t].kind = "submit" /\ tasks[t].txs > 0)
        => /\ tasks[t].args.rate \in 0..7
           /\ tasks[t].args.duration \in Nat
           /\ tasks[t].args.duration >= 1

\* a transaction was sent with the highest rate, a transaction with the
\* rate 0.5 rounded down to the lowest
C14_Witness ==
    /\ \E t \in DOMAIN tasks :
          tasks[t].kind = "submit" /\ tasks[t].txs = 1 /\ tasks[t].args.rate = 7
    /\ \E t \in DOMAIN tasks :
          tasks[t].kind = "submit" /\ tasks[t].txs = 1 /\ tasks[t].args.rate = 0

(***************************************************************************)
(* C15                                                                     *)
(***************************************************************************)
\* the mount effect has run to its end
InitFinished == mounted /\ \A t \in DOMAIN tasks : tasks[t].kind # "init"

\* C15 as the specification states it: when the initialisation at mount
\* has finished with the wallet connected and the contract bound, the
\* contract has been read and the list on display is the connected
\* account's loans and requests, with no user action.
C15_MountLoadsList ==
    (InitFinished /\ listening /\ contract /\ nOps = 0)
    => /\ loaded # <<>>
       /\ IsFilteredView(activeLoans, loaded[1].view, account)

(***************************************************************************)
(* C16                                                                     *)
(***************************************************************************)
\* no answer of provider.getBalance is awaited
NoBalanceQuery == \A t \in DOMAIN tasks : tasks[t].pc # "balance"

\* C16 as the specification states it: whenever no balance query is in
\* flight, the balance on display is the balance of the connected address.
C16_BalanceOfConnectedAccount ==
    (NoBalanceQuery /\ balance # Empty)
    => balance = formatEther(ChainBalance(account))

(***************************************************************************)
(* C17                                                                     *)
(***************************************************************************)
\* C17 as the specification states it: every row of the list on display
\* has the connected address as its borrower, letter case ignored.
C17_RowsOfConnectedAccount ==
    \A i \in 1..Len(activeLoans) : SameAddress(activeLoans[i].borrower, account)
====
